---- MODULE Spec2Model ----
(***************************************************************************)
(* RepoChief TODO demo: the demo runner (run-demo.js), and the end-to-end  *)
(* check (test-e2e.js), each driving the external orchestrator of          *)
(* @liftping/repochief-core through awaited calls.                         *)
(*                                                                         *)
(* A driver is a program counter `pc` (the next statement to run) and the  *)
(* set `pending` of orchestrator/API calls it has issued and that have not *)
(* settled.  `await` is the guard Awaited on the next statement.  The      *)
(* orchestrator is the environment: it settles a pending call (resolve or  *)
(* reject) and, once started, moves queued tasks to a terminal state.      *)
(***************************************************************************)
EXTENDS Integers, Sequences, FiniteSets, TLC

VARIABLES
    prog,         \* which entry point the process runs: "demo" or "e2e"
    envScenario,  \* process.env.DEMO_SCENARIO as the process found it
    argv,         \* process.argv after the script name
    scenario,     \* this.scenario
    mockMode,     \* this.mockMode
    budget,       \* this.budget
    verbose,      \* this.verbose
    orchestrator, \* this.orchestrator: the session config, created or not
    api,          \* this.api / api: "null", "created", "started", "stopped"
    agents,       \* this.agents: slot -> agent returned by createAgent
    pc,           \* next statement of the driver
    idx,          \* position inside createAgents / queueTasks
    pending,      \* calls issued and not settled
    thrown,       \* name of the error that ended the run, "" when none
    exitCode,     \* process exit status, -1 while the process is alive
    exitBy,       \* which statement ended the process
    console,      \* the verdict lines printed so far
    report,       \* the report read by getFinalReport
    orchAgents,   \* orchestrator: agents created
    orchTasks,    \* orchestrator: task specs queued, in order
    taskStatus,   \* orchestrator: status of each queued task
    executing,    \* orchestrator: startExecution has resolved
    handlers,     \* orchestrator: events with a registered handler
    submitted,    \* task specs the driver has passed to queueTask
    timer,        \* e2e: the 30 s timer: "unset", "armed", "cleared", "fired"
    completedTasks, \* e2e: taskCompleted events counted
    failedTasks,  \* e2e: taskFailed events counted
    qualityGateResults, \* e2e: qualityGateResult events recorded
    artifactsCreated,   \* e2e: every result file was found
    verdict,      \* e2e: what runE2ETest returned: "", "true", "false"
    forceExit,    \* e2e: the 1 s process.exit(0) timer is armed
    plans,        \* history: per scenario, the task lists runs have queued
    earlier,      \* history: `plans` as it was when this process started
    pkg,          \* the process as a host of the package: index.js loaded,
                  \* the runs started in it, the runDemo(options) call made
    rec           \* the demo recorder (record-demo.js): its position, its
                  \* process.env, the answers, the script written, and the
                  \* environment of the demo process the script launched

vars == <<prog, envScenario, argv, scenario, mockMode, budget, verbose,
          orchestrator, api, agents, pc, idx, pending, thrown, exitCode,
          exitBy, console, report, orchAgents, orchTasks, taskStatus,
          executing, handlers, submitted, timer, completedTasks,
          failedTasks, qualityGateResults, artifactsCreated, verdict,
          forceExit, plans, earlier, pkg, rec>>

(***************************************************************************)
(* Program constants                                                       *)
(***************************************************************************)
DefaultBudget == 10

SCENARIOS ==
    [basic      |-> [name |-> "Basic TODO API", agents |-> 3,
                     description |-> "REST API with tests"],
     fullstack  |-> [name |-> "Full Stack TODO App", agents |-> 5,
                     description |-> "API + Frontend + Quality validation"],
     enterprise |-> [name |-> "Enterprise TODO App", agents |-> 5,
                     description |-> "Full app with auth, DB, and Docker"]]

Supported == DOMAIN SCENARIOS

\* values DEMO_SCENARIO takes here: unset/empty, the three presets, a typo
EnvScenarios == {"", "basic", "fullstack", "enterprise", "bogus"}
EnvMockModes == {"", "true"}
EnvBudgets   == {"", "25"}
ArgVs        == {<<>>, <<"--verbose">>, <<"--non-interactive">>}

NaN == -1

ParseInt(s) ==
    CASE s = "25" -> 25
      [] s = "0"  -> 0
      [] OTHER    -> NaN

\* JavaScript `a || b` on strings and numbers
OrStr(a, b) == IF a = "" THEN b ELSE a
OrNum(a, b) == IF a = 0 \/ a = NaN THEN b ELSE a

SeqContains(s, x) == \E i \in 1..Len(s) : s[i] = x

\* Parse command line options
Options(e, a) ==
    [scenario |-> OrStr(e.DEMO_SCENARIO, "basic"),
     mockMode |-> (e.MOCK_MODE = "true"),
     budget   |-> OrNum(ParseInt(e.DEMO_BUDGET), DefaultBudget),
     verbose  |-> SeqContains(a, "--verbose")]

\* new TodoDemoRunner(options)
Constructor(o) ==
    [scenario |-> OrStr(o.scenario, "basic"),
     mockMode |-> o.mockMode,
     budget   |-> OrNum(o.budget, DefaultBudget),
     verbose  |-> o.verbose]

Interactive ==
    Len(argv) + 2 <= 2 /\ ~SeqContains(argv, "--non-interactive")

(***************************************************************************)
(* The task planner: queueTasks and its two helpers                        *)
(***************************************************************************)
NoAgent == [id |-> 0, name |-> "", role |-> ""]

AgentSlots == {"analyst", "developer", "tester", "reviewer", "frontend"}

\* The agent requests of createAgents, in order: slot, name, template.
CoreAgents ==
    << [slot |-> "analyst",   name |-> "Alice-Analyst", role |-> "REQUIREMENTS_ANALYST"],
       [slot |-> "developer", name |-> "Bob-Developer", role |-> "SENIOR_DEVELOPER"],
       [slot |-> "tester",    name |-> "Carol-QA",      role |-> "QA_ENGINEER"] >>

ExtraAgents ==
    << [slot |-> "reviewer",  name |-> "David-Reviewer", role |-> "CODE_REVIEWER"],
       [slot |-> "frontend",  name |-> "Eve-Frontend",   role |-> "frontend_developer"] >>

\* createAgents() without its block for the larger scenarios
AgentPlanCoreOnly == CoreAgents

AgentPlan ==
    IF scenario # "basic" THEN CoreAgents \o ExtraAgents ELSE CoreAgents

BaseRequirements ==
    << "CRUD operations (Create, Read, Update, Delete)",
       "Task model with: id, title, description, completed, createdAt, updatedAt",
       "RESTful endpoints following best practices",
       "Input validation",
       "Error handling",
       "JSON responses" >>

EnterpriseRequirements ==
    << "JWT authentication",
       "User association (tasks belong to users)",
       "PostgreSQL database integration",
       "Docker containerization",
       "Rate limiting and security headers" >>

getRequirementsDescription ==
    IF scenario = "enterprise"
    THEN BaseRequirements \o EnterpriseRequirements
    ELSE BaseRequirements

BaseApiCriteria ==
    << "Express.js REST API implementation",
       "All CRUD endpoints (GET, POST, PUT, DELETE)",
       "Proper error handling and validation",
       "Clean code structure with router separation" >>

\* getApiSuccessCriteria as it would be if the demo storage criterion were
\* tied to mock mode
getApiSuccessCriteriaByMode ==
    IF scenario = "basic" \/ mockMode
    THEN Append(BaseApiCriteria, "In-memory storage for demo purposes")
    ELSE IF scenario = "enterprise"
    THEN BaseApiCriteria \o << "PostgreSQL integration with migrations",
                               "JWT authentication middleware",
                               "User-scoped todo operations" >>
    ELSE BaseApiCriteria

getApiSuccessCriteria ==
    IF scenario = "basic"
    THEN Append(BaseApiCriteria, "In-memory storage for demo purposes")
    ELSE IF scenario = "enterprise"
    THEN BaseApiCriteria \o << "PostgreSQL integration with migrations",
                               "JWT authentication middleware",
                               "User-scoped todo operations" >>
    ELSE BaseApiCriteria

NoTask ==
    [id |-> "", type |-> "", objective |-> "", description |-> <<>>,
     dependencies |-> <<>>, context |-> <<>>, successCriteria |-> <<>>,
     specificChecks |-> <<>>, qualityGates |-> <<>>, maxTokens |-> 0,
     agentId |-> 0]

ComprehendTask ==
    [NoTask EXCEPT
        !.id = "comprehend-todo-api",
        !.type = "comprehension",
        !.objective = "Analyze requirements for a RESTful TODO API",
        !.description = getRequirementsDescription,
        !.maxTokens = 10000,
        !.agentId = agents["analyst"].id]

\* GenerateTask handed to the analyst instead of the developer
GenerateTaskWrongAgent ==
    [NoTask EXCEPT
        !.id = "generate-todo-api",
        !.type = "generation",
        !.objective = "Implement TODO API with Express.js",
        !.dependencies = <<"comprehend-todo-api">>,
        !.context = <<".repochief/artifacts/comprehend-todo-api/analysis.md">>,
        !.successCriteria = getApiSuccessCriteria,
        !.maxTokens = 50000,
        !.agentId = agents["analyst"].id]

GenerateTask ==
    [NoTask EXCEPT
        !.id = "generate-todo-api",
        !.type = "generation",
        !.objective = "Implement TODO API with Express.js",
        !.dependencies = <<"comprehend-todo-api">>,
        !.context = <<".repochief/artifacts/comprehend-todo-api/analysis.md">>,
        !.successCriteria = getApiSuccessCriteria,
        !.maxTokens = 50000,
        !.agentId = agents["developer"].id]

\* TestTask pasted from GenerateTask with the id left unchanged
TestTaskPastedId ==
    [NoTask EXCEPT
        !.id = "generate-todo-api",
        !.type = "generation",
        !.objective = "Write comprehensive tests for TODO API",
        !.dependencies = <<"generate-todo-api">>,
        !.context = <<".repochief/artifacts/generate-todo-api/code/">>,
        !.successCriteria = << "Unit tests for all endpoints",
                               "Test coverage > 80%",
                               "Mock dependencies properly",
                               "Test error cases and edge cases",
                               "Use Mocha + Chai + Sinon" >>,
        !.maxTokens = 30000,
        !.agentId = agents["tester"].id]

TestTask ==
    [NoTask EXCEPT
        !.id = "test-todo-api",
        !.type = "generation",
        !.objective = "Write comprehensive tests for TODO API",
        !.dependencies = <<"generate-todo-api">>,
        !.context = <<".repochief/artifacts/generate-todo-api/code/">>,
        !.successCriteria = << "Unit tests for all endpoints",
                               "Test coverage > 80%",
                               "Mock dependencies properly",
                               "Test error cases and edge cases",
                               "Use Mocha + Chai + Sinon" >>,
        !.maxTokens = 30000,
        !.agentId = agents["tester"].id]

\* ValidateTask waiting for the generated code only, not for the tests
ValidateTaskOneDependency ==
    [NoTask EXCEPT
        !.id = "validate-todo-api",
        !.type = "validation",
        !.objective = "Review code quality and security",
        !.dependencies = <<"generate-todo-api">>,
        !.context = << ".repochief/artifacts/generate-todo-api/code/",
                       ".repochief/artifacts/test-todo-api/code/" >>,
        !.specificChecks = << "Code follows best practices",
                              "No security vulnerabilities",
                              "Proper input validation",
                              "Good error handling",
                              "Clean code structure" >>,
        !.qualityGates = <<"eslint", "test", "complexity">>,
        !.maxTokens = 20000,
        !.agentId = agents["reviewer"].id]

ValidateTask ==
    [NoTask EXCEPT
        !.id = "validate-todo-api",
        !.type = "validation",
        !.objective = "Review code quality and security",
        !.dependencies = <<"generate-todo-api", "test-todo-api">>,
        !.context = << ".repochief/artifacts/generate-todo-api/code/",
                       ".repochief/artifacts/test-todo-api/code/" >>,
        !.specificChecks = << "Code follows best practices",
                              "No security vulnerabilities",
                              "Proper input validation",
                              "Good error handling",
                              "Clean code structure" >>,
        !.qualityGates = <<"eslint", "test", "complexity">>,
        !.maxTokens = 20000,
        !.agentId = agents["reviewer"].id]

FrontendTask ==
    [NoTask EXCEPT
        !.id = "generate-todo-frontend",
        !.type = "generation",
        !.objective = "Create React frontend for TODO app",
        !.dependencies = <<"generate-todo-api">>,
        !.context = <<".repochief/artifacts/generate-todo-api/api-spec.json">>,
        !.successCriteria = << "React functional components with hooks",
                               "Responsive design with Tailwind CSS",
                               "API integration with fetch/axios",
                               "Error handling and loading states",
                               "Add, edit, delete, and complete todos" >>,
        !.maxTokens = 40000,
        !.agentId = agents["frontend"].id]

\* TaskPlan with the additional tasks queued for fullstack alone
TaskPlanFullstackOnly ==
    IF scenario = "fullstack"
    THEN <<ComprehendTask, GenerateTask, TestTask, ValidateTask, FrontendTask>>
    ELSE <<ComprehendTask, GenerateTask, TestTask>>

\* TaskPlan with the test task queued before the task it depends on
TaskPlanTestFirst ==
    IF scenario # "basic"
    THEN <<ComprehendTask, TestTask, GenerateTask, ValidateTask, FrontendTask>>
    ELSE <<ComprehendTask, TestTask, GenerateTask>>

\* The task specs queueTasks submits, in order.
TaskPlan ==
    IF scenario # "basic"
    THEN <<ComprehendTask, GenerateTask, TestTask, ValidateTask, FrontendTask>>
    ELSE <<ComprehendTask, GenerateTask, TestTask>>

(***************************************************************************)
(* Calls and awaiting                                                      *)
(***************************************************************************)
\* A call in flight: what it asks and where its rejection is caught.
Call(kind, onReject) ==
    [kind |-> kind, onReject |-> onReject, slot |-> "", name |-> "",
     role |-> "", task |-> NoTask]

\* a driver that issues its calls without awaiting them
NotAwaited == TRUE

\* `await`: the next statement runs once the awaited call has settled.
Awaited == pending = {}

Alive == exitCode = -1

Statement(at) == Alive /\ pc = at /\ Awaited

\* Timer and signal callbacks run only between the driver's turns: while it
\* is suspended in an await, or idle with nothing left to run.
Suspended == pending # {} \/ pc = "exitTimer"

NoReport == [tasksCompleted |-> 0, totalTasks |-> 0, tasksFailed |-> 0]

Count(status) == Cardinality({i \in 1..Len(taskStatus) : taskStatus[i] = status})

getFinalReport ==
    [tasksCompleted |-> Count("completed"),
     totalTasks     |-> Len(orchTasks),
     tasksFailed    |-> Count("failed")]

launchVars == <<prog, envScenario, argv, earlier, pkg, rec>>
fieldVars  == <<scenario, mockMode, budget, verbose>>
orchVars   == <<orchAgents, orchTasks, taskStatus, executing>>
exitVars   == <<exitCode, exitBy>>
e2eVars    == <<timer, completedTasks, failedTasks, qualityGateResults,
                artifactsCreated, verdict, forceExit>>

(***************************************************************************)
(* The demo runner: TodoDemoRunner.run and the process around it           *)
(***************************************************************************)
Envs == [DEMO_SCENARIO : EnvScenarios, MOCK_MODE : EnvMockModes,
         DEMO_BUDGET : EnvBudgets]

NoAgents == [s \in AgentSlots |-> NoAgent]

NoPlans == [s \in Supported |-> {}]

NoOrchestrator == [sessionName |-> <<>>, totalBudget |-> 0, mockMode |-> FALSE]

NoOptions == [scenario |-> "", mockMode |-> FALSE, budget |-> 0, verbose |-> FALSE]

NoSettings == [scenario |-> "", mockMode |-> FALSE, withAudio |-> FALSE]

NoEnv == [DEMO_SCENARIO |-> "", MOCK_MODE |-> ""]

\* no recorder is running
NoRec == [pc |-> "none", env |-> NoEnv, settings |-> NoSettings,
          script |-> NoEnv, child |-> NoEnv, exitCode |-> -1]

\* a process started on a script, not on a program that loads the package
NoPkg == [host |-> FALSE, runs |-> 0, called |-> FALSE, options |-> NoOptions,
          thrown |-> ""]

\* A process has been started on run-demo.js and has run nothing yet.
Init ==
    /\ prog = "demo"
    /\ envScenario = ""
    /\ argv = <<>>
    /\ scenario = ""
    /\ mockMode = FALSE
    /\ budget = 0
    /\ verbose = FALSE
    /\ orchestrator = NoOrchestrator
    /\ api = "null"
    /\ agents = NoAgents
    /\ pc = "load"
    /\ idx = 1
    /\ pending = {}
    /\ thrown = ""
    /\ exitCode = -1
    /\ exitBy = ""
    /\ console = {}
    /\ report = NoReport
    /\ orchAgents = <<>>
    /\ orchTasks = <<>>
    /\ taskStatus = <<>>
    /\ executing = FALSE
    /\ handlers = {}
    /\ submitted = <<>>
    /\ timer = "unset"
    /\ completedTasks = 0
    /\ failedTasks = 0
    /\ qualityGateResults = {}
    /\ artifactsCreated = FALSE
    /\ verdict = ""
    /\ forceExit = FALSE
    /\ plans = NoPlans
    /\ earlier = NoPlans
    /\ pkg = NoPkg
    /\ rec = NoRec

\* The demo is started again in a new process, any number of times; only
\* the history is kept.
Relaunch ==
    /\ prog = "demo"
    /\ ~Alive
    /\ envScenario' = ""
    /\ argv' = <<>>
    /\ scenario' = ""
    /\ mockMode' = FALSE
    /\ budget' = 0
    /\ verbose' = FALSE
    /\ orchestrator' = NoOrchestrator
    /\ api' = "null"
    /\ agents' = NoAgents
    /\ pc' = "load"
    /\ idx' = 1
    /\ pending' = {}
    /\ thrown' = ""
    /\ exitCode' = -1
    /\ exitBy' = ""
    /\ console' = {}
    /\ report' = NoReport
    /\ orchAgents' = <<>>
    /\ orchTasks' = <<>>
    /\ taskStatus' = <<>>
    /\ executing' = FALSE
    /\ handlers' = {}
    /\ submitted' = <<>>
    /\ earlier' = plans
    /\ pkg' = [pkg EXCEPT !.runs = 0]
    /\ UNCHANGED <<prog, e2eVars, plans, rec>>

\* Module level of run-demo.js: parse the options from the environment and
\* the command line, construct the runner, call runner.run().  It runs when
\* the script is started, and when index.js requires it.
Main ==
    /\ prog = "demo"
    /\ Alive
    /\ pc = "load"
    /\ \E e \in Envs, a \in ArgVs :
         /\ envScenario' = e.DEMO_SCENARIO
         /\ argv' = a
         /\ scenario' = Constructor(Options(e, a)).scenario
         /\ mockMode' = Constructor(Options(e, a)).mockMode
         /\ budget' = Constructor(Options(e, a)).budget
         /\ verbose' = Constructor(Options(e, a)).verbose
    /\ pkg' = [pkg EXCEPT !.runs = @ + 1]
    /\ pc' = "run"
    /\ UNCHANGED <<prog, earlier, rec, orchestrator, api, agents, idx, pending,
                   thrown, exitVars, console, report, orchVars, handlers,
                   submitted, e2eVars, plans>>

\* run(): the banner, then interactive setup when no argument was given.
Run ==
    /\ prog = "demo"
    /\ Statement("run")
    /\ IF Interactive
       THEN pending' = pending \cup {Call("prompt", "rejected")}
       ELSE pending' = pending
    /\ pc' = "displayConfig"
    /\ UNCHANGED <<launchVars, fieldVars, orchestrator, api, agents, idx,
                   thrown, exitVars, console, report, orchVars, handlers,
                   submitted, e2eVars, plans>>

\* displayConfig(): reads SCENARIOS[this.scenario].name
DisplayConfig ==
    /\ prog = "demo"
    /\ Statement("displayConfig")
    /\ IF scenario \in DOMAIN SCENARIOS
       THEN /\ pc' = "initialize"
            /\ thrown' = thrown
       ELSE /\ pc' = "rejected"
            /\ thrown' = "TypeError"
    /\ UNCHANGED <<launchVars, fieldVars, orchestrator, api, agents, idx,
                   pending, exitVars, console, report, orchVars, handlers,
                   submitted, e2eVars, plans>>

\* initialize(), first half: createOrchestrator, await orchestrator.initialize()
Initialize ==
    /\ prog = "demo"
    /\ Statement("initialize")
    /\ orchestrator' = [sessionName |-> <<"todo-demo-", scenario>>,
                        totalBudget |-> budget, mockMode |-> mockMode]
    /\ pending' = pending \cup {Call("initialize", "catch")}
    /\ pc' = "startApi"
    /\ UNCHANGED <<launchVars, fieldVars, api, agents, idx, thrown, exitVars,
                   console, report, orchVars, handlers, submitted, e2eVars, plans>>

\* initialize(), second half: createCloudAPI, await this.api.start()
StartApi ==
    /\ prog = "demo"
    /\ Statement("startApi")
    /\ api' = "created"
    /\ pending' = pending \cup {Call("apiStart", "catch")}
    /\ pc' = "createAgents"
    /\ idx' = 1
    /\ UNCHANGED <<launchVars, fieldVars, orchestrator, agents, thrown,
                   exitVars, console, report, orchVars, handlers, submitted,
                   e2eVars, plans>>

\* createAgents(): one awaited createAgent per entry of the agent plan
CreateAgents ==
    /\ prog = "demo"
    /\ Statement("createAgents")
    /\ idx <= Len(AgentPlan)
    /\ pending' = pending \cup
          {[Call("createAgent", "catch") EXCEPT
               !.slot = AgentPlan[idx].slot,
               !.name = AgentPlan[idx].name,
               !.role = AgentPlan[idx].role]}
    /\ IF idx = Len(AgentPlan)
       THEN pc' = "queueTasks" /\ idx' = 1
       ELSE pc' = pc /\ idx' = idx + 1
    /\ UNCHANGED <<launchVars, fieldVars, orchestrator, api, agents, thrown,
                   exitVars, console, report, orchVars, handlers, submitted,
                   e2eVars, plans>>

\* queueTasks(): one awaited queueTask per entry of the task plan
QueueTasks ==
    /\ prog = "demo"
    /\ Statement("queueTasks")
    /\ idx <= Len(TaskPlan)
    /\ pending' = pending \cup
          {[Call("queueTask", "catch") EXCEPT !.task = TaskPlan[idx]]}
    /\ submitted' = Append(submitted, TaskPlan[idx])
    /\ IF idx = Len(TaskPlan)
       THEN /\ pc' = "execute"
            /\ idx' = 1
            /\ plans' = [plans EXCEPT ![scenario] = @ \cup {submitted'}]
       ELSE /\ pc' = pc
            /\ idx' = idx + 1
            /\ plans' = plans
    /\ UNCHANGED <<launchVars, fieldVars, orchestrator, api, agents, thrown,
                   exitVars, console, report, orchVars, handlers, e2eVars>>

\* setupEventHandlers()
EventHandlers ==
    {"taskStarted", "taskProgress", "taskCompleted", "taskFailed",
     "qualityGateResult"} \cup (IF ~mockMode THEN {"costUpdate"} ELSE {})

\* execute(), first half: register handlers, await startExecution()
Execute ==
    /\ prog = "demo"
    /\ Statement("execute")
    /\ handlers' = EventHandlers
    /\ pending' = pending \cup {Call("startExecution", "catch")}
    /\ pc' = "waitForCompletion"
    /\ UNCHANGED <<launchVars, fieldVars, orchestrator, api, agents, idx,
                   thrown, exitVars, console, report, orchVars, submitted,
                   e2eVars, plans>>

\* execute() returning after startExecution, without waitForCompletion
WaitForCompletionNotCalled ==
    /\ prog = "demo"
    /\ Statement("waitForCompletion")
    /\ pc' = "displayResults"
    /\ UNCHANGED <<launchVars, fieldVars, orchestrator, api, agents, idx,
                   pending, thrown, exitVars, console, report, orchVars,
                   handlers, submitted, e2eVars, plans>>

\* execute(), second half: await waitForCompletion()
WaitForCompletion ==
    /\ prog = "demo"
    /\ Statement("waitForCompletion")
    /\ pending' = pending \cup {Call("waitForCompletion", "catch")}
    /\ pc' = "displayResults"
    /\ UNCHANGED <<launchVars, fieldVars, orchestrator, api, agents, idx,
                   thrown, exitVars, console, report, orchVars, handlers,
                   submitted, e2eVars, plans>>

\* the artifact directories displayResults() lists after a success
BasicArtifacts ==
    {".repochief/artifacts/comprehend-todo-api/",
     ".repochief/artifacts/generate-todo-api/",
     ".repochief/artifacts/test-todo-api/"}

ExtraArtifacts ==
    {".repochief/artifacts/validate-todo-api/",
     ".repochief/artifacts/generate-todo-frontend/"}

ArtifactList ==
    BasicArtifacts \cup (IF scenario # "basic" THEN ExtraArtifacts ELSE {})

\* displayResults() with `=` written for `===`: success is the (non-zero)
\* totalTasks assigned, whatever was completed
DisplayResultsAssigns ==
    /\ prog = "demo"
    /\ Statement("displayResults")
    /\ report' = [getFinalReport EXCEPT !.tasksCompleted = getFinalReport.totalTasks]
    /\ console' = console \cup
          (IF report'.totalTasks # 0
           THEN {"Status: SUCCESS"} \cup ArtifactList
           ELSE {"Status: FAILED"})
    /\ pc' = "cleanup"
    /\ UNCHANGED <<launchVars, fieldVars, orchestrator, api, agents, idx,
                   pending, thrown, exitVars, orchVars, handlers, submitted,
                   e2eVars, plans>>

\* displayResults(): success = report.tasksCompleted === report.totalTasks
DisplayResults ==
    /\ prog = "demo"
    /\ Statement("displayResults")
    /\ report' = getFinalReport
    /\ console' = console \cup
          (IF report'.tasksCompleted = report'.totalTasks
           THEN {"Status: SUCCESS"} \cup ArtifactList
           ELSE {"Status: FAILED"})
    /\ pc' = "cleanup"
    /\ UNCHANGED <<launchVars, fieldVars, orchestrator, api, agents, idx,
                   pending, thrown, exitVars, orchVars, handlers, submitted,
                   e2eVars, plans>>

\* cleanup(), first step: await this.orchestrator.shutdown()
Cleanup ==
    /\ prog = "demo"
    /\ Statement("cleanup")
    /\ pending' = pending \cup {Call("shutdown", "cleanupCatch")}
    /\ pc' = "stopApi"
    /\ UNCHANGED <<launchVars, fieldVars, orchestrator, api, agents, idx,
                   thrown, exitVars, console, report, orchVars, handlers,
                   submitted, e2eVars, plans>>

\* cleanup(), second step: await this.api.stop()
StopApi ==
    /\ prog = "demo"
    /\ Statement("stopApi")
    /\ pending' = pending \cup {Call("apiStop", "cleanupCatch")}
    /\ pc' = "armExit"
    /\ UNCHANGED <<launchVars, fieldVars, orchestrator, api, agents, idx,
                   thrown, exitVars, console, report, orchVars, handlers,
                   submitted, e2eVars, plans>>

\* cleanup(), last step: setTimeout(() => process.exit(0), 500)
ArmExit ==
    /\ prog = "demo"
    /\ Statement("armExit")
    /\ pc' = "exitTimer"
    /\ UNCHANGED <<launchVars, fieldVars, orchestrator, api, agents, idx,
                   pending, thrown, exitVars, console, report, orchVars,
                   handlers, submitted, e2eVars, plans>>

\* the 500 ms timer of cleanup() fires: process.exit(0)
ExitTimer ==
    /\ prog = "demo"
    /\ Alive
    /\ pc = "exitTimer"
    /\ Suspended
    /\ exitCode' = 0
    /\ exitBy' = "cleanup"
    /\ pc' = "exited"
    /\ UNCHANGED <<launchVars, fieldVars, orchestrator, api, agents, idx,
                   pending, thrown, console, report, orchVars, handlers,
                   submitted, e2eVars, plans>>

\* run()'s catch block: process.exit(1)
Catch ==
    /\ prog = "demo"
    /\ Alive
    /\ pc = "catch"
    /\ console' = console \cup {"Demo failed"}
    /\ exitCode' = 1
    /\ exitBy' = "catch"
    /\ pc' = "exited"
    /\ UNCHANGED <<launchVars, fieldVars, orchestrator, api, agents, idx,
                   pending, thrown, report, orchVars, handlers, submitted,
                   e2eVars, plans>>

\* cleanup()'s catch block: process.exit(1)
CleanupCatch ==
    /\ prog = "demo"
    /\ Alive
    /\ pc = "cleanupCatch"
    /\ console' = console \cup {"Cleanup error"}
    /\ exitCode' = 1
    /\ exitBy' = "cleanupCatch"
    /\ pc' = "exited"
    /\ UNCHANGED <<launchVars, fieldVars, orchestrator, api, agents, idx,
                   pending, thrown, report, orchVars, handlers, submitted,
                   e2eVars, plans>>

\* runner.run().catch(console.error): the rejection is printed and nothing
\* else is scheduled, so the process ends with the default status.
RunRejected ==
    /\ prog = "demo"
    /\ Alive
    /\ pc = "rejected"
    /\ exitCode' = 0
    /\ exitBy' = "console.error"
    /\ pc' = "exited"
    /\ UNCHANGED <<launchVars, fieldVars, orchestrator, api, agents, idx,
                   pending, thrown, console, report, orchVars, handlers,
                   submitted, e2eVars, plans>>

\* process.on('SIGINT'): process.exit(0)
Sigint ==
    /\ prog = "demo"
    /\ Alive
    /\ Suspended
    /\ console' = console \cup {"Shutting down RepoChief demo"}
    /\ exitCode' = 0
    /\ exitBy' = "SIGINT"
    /\ pc' = "exited"
    /\ UNCHANGED <<launchVars, fieldVars, orchestrator, api, agents, idx,
                   pending, thrown, report, orchVars, handlers, submitted,
                   e2eVars, plans>>

(***************************************************************************)
(* The orchestrator and the other awaited services: how a call settles     *)
(***************************************************************************)
PromptBudgets == {0, 25}

\* interactiveSetup(): the prompt resolves and the answers are stored
ResolvePrompt ==
    /\ Alive
    /\ \E c \in pending :
         /\ c.kind = "prompt"
         /\ pending' = pending \ {c}
         /\ \E s \in DOMAIN SCENARIOS, m \in BOOLEAN, b \in PromptBudgets :
              /\ m => b = 0
              /\ scenario' = s
              /\ mockMode' = m
              /\ budget' = OrNum(b, DefaultBudget)
    /\ UNCHANGED <<launchVars, verbose, orchestrator, api, agents, pc, idx,
                   thrown, exitVars, console, report, orchVars, handlers,
                   submitted, e2eVars, plans>>

\* orchestrator.initialize() resolves
ResolveInitialize ==
    /\ Alive
    /\ \E c \in pending :
         /\ c.kind = "initialize"
         /\ pending' = pending \ {c}
    /\ UNCHANGED <<launchVars, fieldVars, orchestrator, api, agents, pc, idx,
                   thrown, exitVars, console, report, orchVars, handlers,
                   submitted, e2eVars, plans>>

\* api.start() resolves
ResolveApiStart ==
    /\ Alive
    /\ \E c \in pending :
         /\ c.kind = "apiStart"
         /\ pending' = pending \ {c}
    /\ api' = "started"
    /\ UNCHANGED <<launchVars, fieldVars, orchestrator, agents, pc, idx,
                   thrown, exitVars, console, report, orchVars, handlers,
                   submitted, e2eVars, plans>>

\* orchestrator.createAgent(config) resolves to Agent{id, name, role};
\* the driver stores it in its slot
ResolveCreateAgent ==
    /\ Alive
    /\ \E c \in pending :
         /\ c.kind = "createAgent"
         /\ pending' = pending \ {c}
         /\ LET agent == [id |-> Len(orchAgents) + 1, name |-> c.name,
                          role |-> c.role]
            IN /\ orchAgents' = Append(orchAgents, agent)
               /\ agents' = [agents EXCEPT ![c.slot] = agent]
    /\ UNCHANGED <<launchVars, fieldVars, orchestrator, api, pc, idx, thrown,
                   exitVars, console, report, orchTasks, taskStatus,
                   executing, handlers, submitted, e2eVars, plans>>

KnownTaskIds == {orchTasks[i].id : i \in 1..Len(orchTasks)}

KnownAgentIds == {orchAgents[i].id : i \in 1..Len(orchAgents)}

\* queueTask accepts a spec whose dependencies and agent it knows
Accepts(task) ==
    /\ \A i \in 1..Len(task.dependencies) :
          task.dependencies[i] \in KnownTaskIds
    /\ task.agentId \in KnownAgentIds

\* orchestrator.queueTask(taskSpec) resolves
ResolveQueueTask ==
    /\ Alive
    /\ \E c \in pending :
         /\ c.kind = "queueTask"
         /\ Accepts(c.task)
         /\ pending' = pending \ {c}
         /\ orchTasks' = Append(orchTasks, c.task)
         /\ taskStatus' = Append(taskStatus, "queued")
    /\ UNCHANGED <<launchVars, fieldVars, orchestrator, api, agents, pc, idx,
                   thrown, exitVars, console, report, orchAgents, executing,
                   handlers, submitted, e2eVars, plans>>

\* orchestrator.startExecution() resolves
ResolveStartExecution ==
    /\ Alive
    /\ \E c \in pending :
         /\ c.kind = "startExecution"
         /\ pending' = pending \ {c}
    /\ executing' = TRUE
    /\ UNCHANGED <<launchVars, fieldVars, orchestrator, api, agents, pc, idx,
                   thrown, exitVars, console, report, orchAgents, orchTasks,
                   taskStatus, handlers, submitted, e2eVars, plans>>

Terminal(i) == taskStatus[i] \in {"completed", "failed"}

\* orchestrator.waitForCompletion() resolves once every queued task has
\* reached a terminal state
ResolveWaitForCompletion ==
    /\ Alive
    /\ executing
    /\ \A i \in 1..Len(taskStatus) : Terminal(i)
    /\ \E c \in pending :
         /\ c.kind = "waitForCompletion"
         /\ pending' = pending \ {c}
    /\ console' = console \cup
          (IF prog = "demo" THEN {"All tasks completed!"} ELSE {})
    /\ UNCHANGED <<launchVars, fieldVars, orchestrator, api, agents, pc, idx,
                   thrown, exitVars, report, orchVars, handlers, submitted,
                   e2eVars, plans>>

\* orchestrator.shutdown() resolves
ResolveShutdown ==
    /\ Alive
    /\ \E c \in pending :
         /\ c.kind = "shutdown"
         /\ pending' = pending \ {c}
    /\ executing' = FALSE
    /\ UNCHANGED <<launchVars, fieldVars, orchestrator, api, agents, pc, idx,
                   thrown, exitVars, console, report, orchAgents, orchTasks,
                   taskStatus, handlers, submitted, e2eVars, plans>>

\* api.stop() resolves
ResolveApiStop ==
    /\ Alive
    /\ \E c \in pending :
         /\ c.kind = "apiStop"
         /\ pending' = pending \ {c}
    /\ api' = "stopped"
    /\ UNCHANGED <<launchVars, fieldVars, orchestrator, agents, pc, idx,
                   thrown, exitVars, console, report, orchVars, handlers,
                   submitted, e2eVars, plans>>

\* Calls whose rejection the caller swallows with its own .catch()
Swallowed == {"fsAccess", "apiStopQuiet"}

\* An awaited call rejects: control passes to the enclosing catch, or out
\* of run() when there is none
RejectCall ==
    /\ Alive
    /\ \E c \in pending :
         /\ c.kind \notin Swallowed
         /\ pending' = pending \ {c}
         /\ pc' = c.onReject
    /\ thrown' = "Error"
    /\ UNCHANGED <<launchVars, fieldVars, orchestrator, api, agents, idx,
                   exitVars, console, report, orchVars, handlers, submitted,
                   e2eVars, plans>>

(***************************************************************************)
(* The orchestrator executing tasks, and the driver's event handlers       *)
(***************************************************************************)
IndexOf(id) == CHOOSE i \in 1..Len(orchTasks) : orchTasks[i].id = id

DepsAll(i, status) ==
    \A k \in 1..Len(orchTasks[i].dependencies) :
        taskStatus[IndexOf(orchTasks[i].dependencies[k])] = status

DepsSome(i, status) ==
    \E k \in 1..Len(orchTasks[i].dependencies) :
        taskStatus[IndexOf(orchTasks[i].dependencies[k])] = status

\* a task whose dependencies completed starts; on('taskStarted') prints
TaskStarted ==
    /\ Alive
    /\ executing
    /\ \E i \in 1..Len(orchTasks) :
         /\ taskStatus[i] = "queued"
         /\ DepsAll(i, "completed")
         /\ taskStatus' = [taskStatus EXCEPT ![i] = "running"]
    /\ UNCHANGED <<launchVars, fieldVars, orchestrator, api, agents, pc, idx,
                   pending, thrown, exitVars, console, report, orchAgents,
                   orchTasks, executing, handlers, submitted, e2eVars, plans>>

\* on('taskProgress'): printed in verbose mode only
TaskProgress ==
    /\ Alive
    /\ executing
    /\ \E i \in 1..Len(orchTasks) : taskStatus[i] = "running"
    /\ console' = console \cup
          (IF prog = "demo" /\ "taskProgress" \in handlers /\ verbose
           THEN {"Progress"} ELSE {})
    /\ UNCHANGED <<launchVars, fieldVars, orchestrator, api, agents, pc, idx,
                   pending, thrown, exitVars, report, orchVars, handlers,
                   submitted, e2eVars, plans>>

\* a running task completes; on('taskCompleted')
TaskCompleted ==
    /\ Alive
    /\ executing
    /\ \E i \in 1..Len(orchTasks) :
         /\ taskStatus[i] = "running"
         /\ taskStatus' = [taskStatus EXCEPT ![i] = "completed"]
    /\ completedTasks' =
          IF prog = "e2e" /\ "taskCompleted" \in handlers
          THEN completedTasks + 1 ELSE completedTasks
    /\ UNCHANGED <<launchVars, fieldVars, orchestrator, api, agents, pc, idx,
                   pending, thrown, exitVars, console, report, orchAgents,
                   orchTasks, executing, handlers, submitted, timer,
                   failedTasks, qualityGateResults, artifactsCreated, verdict,
                   forceExit, plans>>

\* TaskFailed with a handler that throws the task's error: the exception
\* leaves the emitter uncaught and ends the process
TaskFailedThrows ==
    /\ Alive
    /\ executing
    /\ \E i \in 1..Len(orchTasks) :
         /\ \/ taskStatus[i] = "running"
            \/ taskStatus[i] = "queued" /\ DepsSome(i, "failed")
         /\ taskStatus' = [taskStatus EXCEPT ![i] = "failed"]
    /\ thrown' = "Error"
    /\ exitCode' = 1
    /\ exitBy' = "uncaughtException"
    /\ pc' = "exited"
    /\ UNCHANGED <<launchVars, fieldVars, orchestrator, api, agents, idx,
                   pending, console, report, orchAgents, orchTasks,
                   executing, handlers, submitted, e2eVars, plans>>

\* a running task fails, or a task whose dependency failed is failed
\* without running; on('taskFailed') reports it and nothing else
TaskFailed ==
    /\ Alive
    /\ executing
    /\ \E i \in 1..Len(orchTasks) :
         /\ \/ taskStatus[i] = "running"
            \/ taskStatus[i] = "queued" /\ DepsSome(i, "failed")
         /\ taskStatus' = [taskStatus EXCEPT ![i] = "failed"]
    /\ console' = console \cup
          (IF prog = "demo" /\ "taskFailed" \in handlers
           THEN {"Failed"} ELSE {})
    /\ failedTasks' =
          IF prog = "e2e" /\ "taskFailed" \in handlers
          THEN failedTasks + 1 ELSE failedTasks
    /\ UNCHANGED <<launchVars, fieldVars, orchestrator, api, agents, pc, idx,
                   pending, thrown, exitVars, report, orchAgents, orchTasks,
                   executing, handlers, submitted, timer, completedTasks,
                   qualityGateResults, artifactsCreated, verdict, forceExit,
                   plans>>

GateStatuses == {"pass", "fail", "skipped", "error"}

\* a quality gate of a running task reports; on('qualityGateResult'):
\* the demo prints it, the end-to-end check records it
QualityGateResult ==
    /\ Alive
    /\ executing
    /\ \E i \in 1..Len(orchTasks) :
         /\ taskStatus[i] = "running"
         /\ \E g \in 1..Len(orchTasks[i].qualityGates), st \in GateStatuses :
              qualityGateResults' =
                IF /\ prog = "e2e"
                   /\ "qualityGateResult" \in handlers
                   /\ \A r \in qualityGateResults :
                         ~(r.gate = orchTasks[i].qualityGates[g]
                           /\ r.task = orchTasks[i].id)
                THEN qualityGateResults \cup
                       {[gate |-> orchTasks[i].qualityGates[g],
                         status |-> st, task |-> orchTasks[i].id]}
                ELSE qualityGateResults
    /\ UNCHANGED <<launchVars, fieldVars, orchestrator, api, agents, pc, idx,
                   pending, thrown, exitVars, console, report, orchVars,
                   handlers, submitted, timer, completedTasks, failedTasks,
                   artifactsCreated, verdict, forceExit, plans>>

(***************************************************************************)
(* The end-to-end check: runE2ETest and the process around it              *)
(***************************************************************************)
E2EAgentPlan ==
    << [slot |-> "analyst",   name |-> "Test-Analyst",   role |-> "REQUIREMENTS_ANALYST"],
       [slot |-> "developer", name |-> "Test-Developer", role |-> "SENIOR_DEVELOPER"],
       [slot |-> "tester",    name |-> "Test-QA",        role |-> "QA_ENGINEER"] >>

E2ETaskPlan ==
    << [NoTask EXCEPT
          !.id = "e2e-comprehend",
          !.type = "comprehension",
          !.objective = "Analyze TODO API requirements",
          !.description = <<"Simple TODO API with CRUD operations">>,
          !.maxTokens = 10000,
          !.agentId = agents["analyst"].id],
       [NoTask EXCEPT
          !.id = "e2e-generate",
          !.type = "generation",
          !.objective = "Generate TODO API code",
          !.dependencies = <<"e2e-comprehend">>,
          !.context = <<".repochief/artifacts/e2e-comprehend/analysis.md">>,
          !.successCriteria = <<"Express API", "CRUD endpoints">>,
          !.maxTokens = 20000,
          !.agentId = agents["developer"].id,
          !.qualityGates = <<"eslint", "complexity">>],
       [NoTask EXCEPT
          !.id = "e2e-test",
          !.type = "generation",
          !.objective = "Generate tests",
          !.dependencies = <<"e2e-generate">>,
          !.context = <<".repochief/artifacts/e2e-generate/code/">>,
          !.successCriteria = <<"Unit tests", "Test coverage">>,
          !.maxTokens = 15000,
          !.agentId = agents["tester"].id,
          !.qualityGates = <<"test">>] >>

InitE2E ==
    /\ prog = "e2e"
    /\ envScenario = ""
    /\ argv = <<>>
    /\ scenario = ""
    /\ mockMode = TRUE
    /\ budget = 0
    /\ verbose = FALSE
    /\ orchestrator = NoOrchestrator
    /\ api = "null"
    /\ agents = NoAgents
    /\ pc = "e2e:create"
    /\ idx = 1
    /\ pending = {}
    /\ thrown = ""
    /\ exitCode = -1
    /\ exitBy = ""
    /\ console = {}
    /\ report = NoReport
    /\ orchAgents = <<>>
    /\ orchTasks = <<>>
    /\ taskStatus = <<>>
    /\ executing = FALSE
    /\ handlers = {}
    /\ submitted = <<>>
    /\ timer = "unset"
    /\ completedTasks = 0
    /\ failedTasks = 0
    /\ qualityGateResults = {}
    /\ artifactsCreated = FALSE
    /\ verdict = ""
    /\ forceExit = FALSE
    /\ plans = NoPlans
    /\ earlier = NoPlans
    /\ pkg = NoPkg
    /\ rec = NoRec

\* 1. createOrchestrator, await orchestrator.initialize()
E2ECreate ==
    /\ prog = "e2e"
    /\ Statement("e2e:create")
    /\ orchestrator' = [sessionName |-> <<"e2e-test-todo">>,
                        totalBudget |-> 5, mockMode |-> TRUE]
    /\ pending' = pending \cup {Call("initialize", "e2e:catch")}
    /\ pc' = "e2e:api"
    /\ UNCHANGED <<launchVars, fieldVars, api, agents, idx, thrown, exitVars,
                   console, report, orchVars, handlers, submitted, e2eVars,
                   plans>>

\* 2. createCloudAPI, await api.start()
E2EStartApi ==
    /\ prog = "e2e"
    /\ Statement("e2e:api")
    /\ api' = "created"
    /\ pending' = pending \cup {Call("apiStart", "e2e:catch")}
    /\ pc' = "e2e:agents"
    /\ idx' = 1
    /\ UNCHANGED <<launchVars, fieldVars, orchestrator, agents, thrown,
                   exitVars, console, report, orchVars, handlers, submitted,
                   e2eVars, plans>>

\* 3. three awaited createAgent calls
E2ECreateAgents ==
    /\ prog = "e2e"
    /\ Statement("e2e:agents")
    /\ idx <= Len(E2EAgentPlan)
    /\ pending' = pending \cup
          {[Call("createAgent", "e2e:catch") EXCEPT
               !.slot = E2EAgentPlan[idx].slot,
               !.name = E2EAgentPlan[idx].name,
               !.role = E2EAgentPlan[idx].role]}
    /\ IF idx = Len(E2EAgentPlan)
       THEN pc' = "e2e:tasks" /\ idx' = 1
       ELSE pc' = pc /\ idx' = idx + 1
    /\ UNCHANGED <<launchVars, fieldVars, orchestrator, api, agents, thrown,
                   exitVars, console, report, orchVars, handlers, submitted,
                   e2eVars, plans>>

\* 4. three awaited queueTask calls, each result pushed on `tasks`
E2EQueueTasks ==
    /\ prog = "e2e"
    /\ Statement("e2e:tasks")
    /\ idx <= Len(E2ETaskPlan)
    /\ pending' = pending \cup
          {[Call("queueTask", "e2e:catch") EXCEPT !.task = E2ETaskPlan[idx]]}
    /\ submitted' = Append(submitted, E2ETaskPlan[idx])
    /\ IF idx = Len(E2ETaskPlan)
       THEN pc' = "e2e:handlers" /\ idx' = 1
       ELSE pc' = pc /\ idx' = idx + 1
    /\ UNCHANGED <<launchVars, fieldVars, orchestrator, api, agents, thrown,
                   exitVars, console, report, orchVars, handlers, e2eVars,
                   plans>>

\* 5. register the three handlers, await orchestrator.startExecution()
E2EStartExecution ==
    /\ prog = "e2e"
    /\ Statement("e2e:handlers")
    /\ handlers' = {"taskCompleted", "taskFailed", "qualityGateResult"}
    /\ pending' = pending \cup {Call("startExecution", "e2e:catch")}
    /\ pc' = "e2e:setTimeout"
    /\ UNCHANGED <<launchVars, fieldVars, orchestrator, api, agents, idx,
                   thrown, exitVars, console, report, orchVars, submitted,
                   e2eVars, plans>>

\* setTimeout(() => { throw ... }, 30000), await waitForCompletion()
E2EWaitForCompletion ==
    /\ prog = "e2e"
    /\ Statement("e2e:setTimeout")
    /\ timer' = "armed"
    /\ pending' = pending \cup {Call("waitForCompletion", "e2e:catch")}
    /\ pc' = "e2e:clearTimeout"
    /\ UNCHANGED <<launchVars, fieldVars, orchestrator, api, agents, idx,
                   thrown, exitVars, console, report, orchVars, handlers,
                   submitted, completedTasks, failedTasks, qualityGateResults,
                   artifactsCreated, verdict, forceExit, plans>>

\* the timer left running
ClearTimeoutMissing(t) == t

\* clearTimeout(timeout): what becomes of the timer `t`
ClearTimeout(t) == "cleared"

E2EClearTimeout ==
    /\ prog = "e2e"
    /\ Statement("e2e:clearTimeout")
    /\ timer' = ClearTimeout(timer)
    /\ pc' = "e2e:verify"
    /\ UNCHANGED <<launchVars, fieldVars, orchestrator, api, agents, idx,
                   pending, thrown, exitVars, console, report, orchVars,
                   handlers, submitted, completedTasks, failedTasks,
                   qualityGateResults, artifactsCreated, verdict, forceExit,
                   plans>>

\* The timer callback throws outside every try block: an uncaught
\* exception, on which the process prints the error and ends with status 1.
\* A timer callback runs only while the driver is suspended in an await.
TimeoutFires ==
    /\ prog = "e2e"
    /\ Alive
    /\ timer = "armed"
    /\ Suspended
    /\ timer' = "fired"
    /\ thrown' = "Execution timeout after 30 seconds"
    /\ exitCode' = 1
    /\ exitBy' = "uncaughtException"
    /\ pc' = "exited"
    /\ UNCHANGED <<launchVars, fieldVars, orchestrator, api, agents, idx,
                   pending, console, report, orchVars, handlers, submitted,
                   completedTasks, failedTasks, qualityGateResults,
                   artifactsCreated, verdict, forceExit, plans>>

\* 6. getFinalReport(), then await Promise.all of the three fs.access
E2EVerify ==
    /\ prog = "e2e"
    /\ Statement("e2e:verify")
    /\ report' = getFinalReport
    /\ pending' = pending \cup {Call("fsAccess", "e2e:catch")}
    /\ pc' = "e2e:verdict"
    /\ UNCHANGED <<launchVars, fieldVars, orchestrator, api, agents, idx,
                   thrown, exitVars, console, orchVars, handlers, submitted,
                   e2eVars, plans>>

\* each fs.access settles to true or false; artifactsCreated is their `every`
ResolveFsAccess ==
    /\ Alive
    /\ \E c \in pending :
         /\ c.kind = "fsAccess"
         /\ pending' = pending \ {c}
    /\ artifactsCreated' \in BOOLEAN
    /\ UNCHANGED <<launchVars, fieldVars, orchestrator, api, agents, pc, idx,
                   thrown, exitVars, console, report, orchVars, handlers,
                   submitted, timer, completedTasks, failedTasks,
                   qualityGateResults, verdict, forceExit, plans>>

allTestsPassed ==
    /\ report.tasksCompleted = Len(submitted)
    /\ report.tasksFailed = 0
    /\ failedTasks = 0
    /\ completedTasks = Len(submitted)
    /\ Cardinality(qualityGateResults) > 0

\* gateStatuses[status]: how many recorded results carry `status`
gateStatuses(status) ==
    Cardinality({r \in qualityGateResults : r.status = status})

hasFailedGates == gateStatuses("failed") > 0 \/ gateStatuses("error") > 0

testSuccess == allTestsPassed /\ artifactsCreated /\ ~hasFailedGates

\* 7. the verdict is printed and returned
E2EVerdict ==
    /\ prog = "e2e"
    /\ Statement("e2e:verdict")
    /\ console' = console \cup
          {IF testSuccess THEN "E2E TEST PASSED" ELSE "E2E TEST FAILED"}
    /\ verdict' = IF testSuccess THEN "true" ELSE "false"
    /\ pc' = "e2e:finally"
    /\ UNCHANGED <<launchVars, fieldVars, orchestrator, api, agents, idx,
                   pending, thrown, exitVars, report, orchVars, handlers,
                   submitted, timer, completedTasks, failedTasks,
                   qualityGateResults, artifactsCreated, forceExit, plans>>

\* catch (error): print it, return false
E2ECatch ==
    /\ prog = "e2e"
    /\ Alive
    /\ pc = "e2e:catch"
    /\ console' = console \cup {"Test failed with error"}
    /\ verdict' = "false"
    /\ pc' = "e2e:finally"
    /\ UNCHANGED <<launchVars, fieldVars, orchestrator, api, agents, idx,
                   pending, thrown, exitVars, report, orchVars, handlers,
                   submitted, timer, completedTasks, failedTasks,
                   qualityGateResults, artifactsCreated, forceExit, plans>>

\* finally: if (api) await api.stop().catch(() => {})
E2EFinally ==
    /\ prog = "e2e"
    /\ Statement("e2e:finally")
    /\ pending' = pending \cup
          (IF api # "null" THEN {Call("apiStopQuiet", "e2e:forceExit")} ELSE {})
    /\ pc' = "e2e:forceExit"
    /\ UNCHANGED <<launchVars, fieldVars, orchestrator, api, agents, idx,
                   thrown, exitVars, console, report, orchVars, handlers,
                   submitted, e2eVars, plans>>

\* api.stop() settles; a rejection is swallowed by its .catch
ResolveApiStopQuiet ==
    /\ Alive
    /\ \E c \in pending :
         /\ c.kind = "apiStopQuiet"
         /\ pending' = pending \ {c}
    /\ api' \in {"stopped", api}
    /\ UNCHANGED <<launchVars, fieldVars, orchestrator, agents, pc, idx,
                   thrown, exitVars, console, report, orchVars, handlers,
                   submitted, e2eVars, plans>>

\* finally: setTimeout(() => process.exit(0), 1000); runE2ETest settles
E2EForceExit ==
    /\ prog = "e2e"
    /\ Statement("e2e:forceExit")
    /\ forceExit' = TRUE
    /\ pc' = "e2e:then"
    /\ UNCHANGED <<launchVars, fieldVars, orchestrator, api, agents, idx,
                   pending, thrown, exitVars, console, report, orchVars,
                   handlers, submitted, timer, completedTasks, failedTasks,
                   qualityGateResults, artifactsCreated, verdict, plans>>

\* runE2ETest().then(success => process.exit(success ? 0 : 1))
E2EThen ==
    /\ prog = "e2e"
    /\ Statement("e2e:then")
    /\ exitCode' = IF verdict = "true" THEN 0 ELSE 1
    /\ exitBy' = "then"
    /\ pc' = "exited"
    /\ UNCHANGED <<launchVars, fieldVars, orchestrator, api, agents, idx,
                   pending, thrown, console, report, orchVars, handlers,
                   submitted, e2eVars, plans>>

Orchestrator ==
    \/ ResolveInitialize
    \/ ResolveApiStart
    \/ ResolveCreateAgent
    \/ ResolveQueueTask
    \/ ResolveStartExecution
    \/ ResolveWaitForCompletion
    \/ RejectCall
    \/ TaskStarted
    \/ TaskProgress
    \/ TaskCompleted
    \/ TaskFailed
    \/ QualityGateResult

Next ==
    \/ Main
    \/ Run
    \/ ResolvePrompt
    \/ DisplayConfig
    \/ Initialize
    \/ StartApi
    \/ CreateAgents
    \/ QueueTasks
    \/ Execute
    \/ WaitForCompletion
    \/ DisplayResults
    \/ Cleanup
    \/ ResolveShutdown
    \/ StopApi
    \/ ResolveApiStop
    \/ ArmExit
    \/ ExitTimer
    \/ Catch
    \/ CleanupCatch
    \/ RunRejected
    \/ Sigint
    \/ Relaunch
    \/ Orchestrator

Spec == Init /\ [][Next]_vars

NextE2E ==
    \/ E2ECreate
    \/ E2EStartApi
    \/ E2ECreateAgents
    \/ E2EQueueTasks
    \/ E2EStartExecution
    \/ E2EWaitForCompletion
    \/ E2EClearTimeout
    \/ TimeoutFires
    \/ E2EVerify
    \/ ResolveFsAccess
    \/ E2EVerdict
    \/ E2ECatch
    \/ E2EFinally
    \/ ResolveApiStopQuiet
    \/ E2EForceExit
    \/ E2EThen
    \/ Orchestrator

SpecE2E == InitE2E /\ [][NextE2E]_vars

(***************************************************************************)
(* The package entry point: index.js loaded by a host program              *)
(***************************************************************************)
\* the options a host passes to runDemo here
OptionSets ==
    {[scenario |-> "fullstack", mockMode |-> FALSE, budget |-> 10,
      verbose |-> FALSE],
     [scenario |-> "enterprise", mockMode |-> TRUE, budget |-> 25,
      verbose |-> FALSE]}

\* A host program has started and is about to require the package:
\* index.js line 6 requires ./run-demo, whose module level is Main.
InitPkg ==
    /\ prog = "demo"
    /\ envScenario = ""
    /\ argv = <<>>
    /\ scenario = ""
    /\ mockMode = FALSE
    /\ budget = 0
    /\ verbose = FALSE
    /\ orchestrator = NoOrchestrator
    /\ api = "null"
    /\ agents = NoAgents
    /\ pc = "load"
    /\ idx = 1
    /\ pending = {}
    /\ thrown = ""
    /\ exitCode = -1
    /\ exitBy = ""
    /\ console = {}
    /\ report = NoReport
    /\ orchAgents = <<>>
    /\ orchTasks = <<>>
    /\ taskStatus = <<>>
    /\ executing = FALSE
    /\ handlers = {}
    /\ submitted = <<>>
    /\ timer = "unset"
    /\ completedTasks = 0
    /\ failedTasks = 0
    /\ qualityGateResults = {}
    /\ artifactsCreated = FALSE
    /\ verdict = ""
    /\ forceExit = FALSE
    /\ plans = NoPlans
    /\ earlier = NoPlans
    /\ pkg = [NoPkg EXCEPT !.host = TRUE]
    /\ rec = NoRec

\* what require('./run-demo') evaluates to: run-demo.js assigns nothing to
\* module.exports, so index.js binds TodoDemoRunner to the empty object
RunDemoExports == [class |-> FALSE]

\* runDemo(options): new TodoDemoRunner(options), then runner.run().
\* `new` on a value that is not a constructor throws a TypeError, which
\* rejects the promise runDemo returns; no runner is made and none is run.
RunDemo ==
    /\ pkg.host
    /\ Alive
    /\ pc # "load"
    /\ Suspended \/ pc = "run"
    /\ ~pkg.called
    /\ ~RunDemoExports.class
    /\ \E o \in OptionSets :
         pkg' = [pkg EXCEPT !.called = TRUE, !.options = o,
                            !.thrown = "TypeError"]
    /\ UNCHANGED <<prog, envScenario, argv, earlier, rec, fieldVars, orchestrator,
                   api, agents, pc, idx, pending, thrown, exitVars, console,
                   report, orchVars, handlers, submitted, e2eVars, plans>>

NextPkg ==
    \/ Main
    \/ RunDemo
    \/ Run
    \/ ResolvePrompt
    \/ DisplayConfig
    \/ Initialize
    \/ StartApi
    \/ CreateAgents
    \/ QueueTasks
    \/ Execute
    \/ WaitForCompletion
    \/ DisplayResults
    \/ Cleanup
    \/ ResolveShutdown
    \/ StopApi
    \/ ResolveApiStop
    \/ ArmExit
    \/ ExitTimer
    \/ Catch
    \/ CleanupCatch
    \/ RunRejected
    \/ Sigint
    \/ Orchestrator

SpecPkg == InitPkg /\ [][NextPkg]_vars

(***************************************************************************)
(* The demo recorder: record-demo.js                                       *)
(***************************************************************************)
\* everything but the recorder
runnerVars == <<prog, envScenario, argv, earlier, pkg, fieldVars,
                orchestrator, api, agents, pc, idx, pending, thrown, exitVars,
                console, report, orchVars, handlers, submitted, e2eVars, plans>>

\* the environment the recorder may be started with
RecEnvs == [DEMO_SCENARIO : EnvScenarios, MOCK_MODE : {"", "true", "false"}]

\* the answers inquirer may return
Settings == [scenario : {"basic", "fullstack", "enterprise"},
             mockMode : BOOLEAN, withAudio : BOOLEAN]

\* Boolean.prototype.toString
BooleanToString(b) == IF b THEN "true" ELSE "false"

\* The recorder has been started, in some environment.
InitRec ==
    /\ prog = "rec"
    /\ envScenario = ""
    /\ argv = <<>>
    /\ scenario = ""
    /\ mockMode = FALSE
    /\ budget = 0
    /\ verbose = FALSE
    /\ orchestrator = NoOrchestrator
    /\ api = "null"
    /\ agents = NoAgents
    /\ pc = "rec"
    /\ idx = 1
    /\ pending = {}
    /\ thrown = ""
    /\ exitCode = -1
    /\ exitBy = ""
    /\ console = {}
    /\ report = NoReport
    /\ orchAgents = <<>>
    /\ orchTasks = <<>>
    /\ taskStatus = <<>>
    /\ executing = FALSE
    /\ handlers = {}
    /\ submitted = <<>>
    /\ timer = "unset"
    /\ completedTasks = 0
    /\ failedTasks = 0
    /\ qualityGateResults = {}
    /\ artifactsCreated = FALSE
    /\ verdict = ""
    /\ forceExit = FALSE
    /\ plans = NoPlans
    /\ earlier = NoPlans
    /\ pkg = NoPkg
    /\ \E e \in RecEnvs : rec = [NoRec EXCEPT !.pc = "checkPrerequisites", !.env = e]

\* checkPrerequisites(): without asciinema, process.exit(1)
RecCheckPrerequisites ==
    /\ rec.pc = "checkPrerequisites"
    /\ \E hasAsciinema \in BOOLEAN :
         rec' = IF hasAsciinema
                THEN [rec EXCEPT !.pc = "getSettings"]
                ELSE [rec EXCEPT !.pc = "exited", !.exitCode = 1]
    /\ UNCHANGED runnerVars

\* getSettings(): the answers of the prompt
RecGetSettings ==
    /\ rec.pc = "getSettings"
    /\ \E answers \in Settings :
         rec' = [rec EXCEPT !.pc = "prepareRecording", !.settings = answers]
    /\ UNCHANGED runnerVars

\* prepareRecording(): writes demo-script.sh; the two assignments in front
\* of `node run-demo.js --verbose` are filled in from process.env as it is
\* when the script is written
RecPrepareRecording ==
    /\ rec.pc = "prepareRecording"
    /\ rec' = [rec EXCEPT
                  !.pc = "startRecording",
                  !.script = [DEMO_SCENARIO |-> OrStr(rec.env.DEMO_SCENARIO, "basic"),
                              MOCK_MODE |-> OrStr(rec.env.MOCK_MODE, "true")]]
    /\ UNCHANGED runnerVars

\* startRecording(settings): stores the answers in process.env and spawns
\* asciinema on the script with that environment
RecStartRecording ==
    /\ rec.pc = "startRecording"
    /\ rec' = [rec EXCEPT
                  !.pc = "recording",
                  !.env = [DEMO_SCENARIO |-> rec.settings.scenario,
                           MOCK_MODE |-> BooleanToString(rec.settings.mockMode)]]
    /\ UNCHANGED runnerVars

\* demo-script.sh reaches its `VAR=value ... node run-demo.js` line: the
\* demo process gets the inherited environment with the variables assigned
\* on the command line replacing the inherited ones
RecScriptRunsDemo ==
    /\ rec.pc = "recording"
    /\ rec' = [rec EXCEPT
                  !.pc = "demo",
                  !.child = [DEMO_SCENARIO |-> rec.script.DEMO_SCENARIO,
                             MOCK_MODE |-> rec.script.MOCK_MODE]]
    /\ UNCHANGED runnerVars

\* recording.on('close'): code 0 resolves run(), another code rejects it and
\* the catch of the last lines exits with status 1
RecClose ==
    /\ rec.pc \in {"recording", "demo"}
    /\ \E code \in {0, 1} :
         rec' = [rec EXCEPT !.pc = "exited", !.exitCode = code]
    /\ UNCHANGED runnerVars

NextRec ==
    \/ RecCheckPrerequisites
    \/ RecGetSettings
    \/ RecPrepareRecording
    \/ RecStartRecording
    \/ RecScriptRunsDemo
    \/ RecClose

SpecRec == InitRec /\ [][NextRec]_vars

(***************************************************************************)
(* Properties                                                              *)
(***************************************************************************)
Exited == pc = "exited"

Ids(p) == [i \in 1..Len(p) |-> p[i].id]

IdSet(p) == {p[i].id : i \in 1..Len(p)}

\* The last queueTask of queueTasks() has been issued.
QueueTasksDone == handlers # {} \/ pc = "execute"

\* C1: started (without the interactive prompt) on a DEMO_SCENARIO outside
\* {basic, fullstack, enterprise}, the runner creates no agent and queues no
\* task, and the error that ends the run is a ConfigurationError.
C1_UnknownScenarioConfigurationError ==
    (prog = "demo" /\ pc # "load" /\ ~Interactive
        /\ envScenario \notin DOMAIN SCENARIOS)
    => /\ orchAgents = <<>>
       /\ \A c \in pending : c.kind \notin {"createAgent", "queueTask"}
       /\ submitted = <<>>
       /\ (Exited /\ exitBy # "SIGINT" => thrown = "ConfigurationError")

\* C2: a run of the demo that ended on an error thrown by a step of run()
\* ended with a non-zero exit status.
C2_FatalErrorExitsNonZero ==
    (prog = "demo" /\ Exited /\ thrown # "" /\ exitBy # "SIGINT")
    => exitCode >= 1

ReportDisplayed == console \cap {"Status: SUCCESS", "Status: FAILED"} # {}

\* C3: a demo run that displayed its final report and ended on its own
\* exits with status 0 only when the report's tasksCompleted equals its
\* totalTasks (and with status 1 otherwise).
C3_ExitZeroOnlyOnFullSuccess ==
    (prog = "demo" /\ Exited /\ ReportDisplayed /\ exitBy # "SIGINT")
    => (exitCode = 0 => report.tasksCompleted = report.totalTasks)

(***************************************************************************)
(* Task lists as graphs                                                    *)
(***************************************************************************)
UniqueIds(p) == \A i, j \in 1..Len(p) : p[i].id = p[j].id => i = j

\* ids the tasks named `from` depend on directly
DirectDeps(p, from) ==
    UNION {{p[i].dependencies[k] : k \in 1..Len(p[i].dependencies)} :
              i \in {n \in 1..Len(p) : p[n].id \in from}}

RECURSIVE Closure(_, _, _)
Closure(p, reached, n) ==
    IF n = 0 THEN reached
    ELSE Closure(p, reached \cup DirectDeps(p, reached), n - 1)

\* every id reachable from `id` through one or more dependency edges
Reaches(p, id) == Closure(p, DirectDeps(p, {id}), Len(p))

Acyclic(p) == \A i \in 1..Len(p) : p[i].id \notin Reaches(p, p[i].id)

AllPlans == UNION {plans[s] : s \in DOMAIN SCENARIOS}

\* C4: every task list queued for a supported scenario is non-empty, has
\* pairwise distinct ids and an acyclic dependency graph (and so has every
\* part of it queued so far).
C4_TaskListsWellFormed ==
    /\ \A p \in AllPlans : Len(p) > 0 /\ UniqueIds(p) /\ Acyclic(p)
    /\ prog = "demo" => UniqueIds(submitted) /\ Acyclic(submitted)
    /\ prog = "demo" /\ QueueTasksDone => Len(submitted) > 0

C4_Witness ==
    \A s \in DOMAIN SCENARIOS : plans[s] # {}

\* a task definition without the agent id the orchestrator handed out
Definition(t) == [t EXCEPT !.agentId = 0]

\* the two tasks are the same but for description and success criteria
SameButText(t, u) ==
    [Definition(t) EXCEPT !.description = <<>>, !.successCriteria = <<>>]
  = [Definition(u) EXCEPT !.description = <<>>, !.successCriteria = <<>>]

\* C5: by id the fullstack list contains the basic list; the enterprise list
\* has the ids and dependencies of the fullstack list, and differs from it
\* only in the description of comprehend and the success criteria of generate.
C5_ScenarioExtension ==
    /\ \A pb \in plans["basic"], pf \in plans["fullstack"] :
          IdSet(pb) \subseteq IdSet(pf)
    /\ \A pf \in plans["fullstack"], pe \in plans["enterprise"] :
          /\ Ids(pe) = Ids(pf)
          /\ \A i \in 1..Len(pe) :
                /\ pe[i].dependencies = pf[i].dependencies
                /\ SameButText(pe[i], pf[i])
                /\ pe[i].id # "comprehend-todo-api"
                      => pe[i].description = pf[i].description
                /\ pe[i].id # "generate-todo-api"
                      => pe[i].successCriteria = pf[i].successCriteria

C5_Witness ==
    /\ \A s \in DOMAIN SCENARIOS : plans[s] # {}
    /\ \E pf \in plans["fullstack"], pe \in plans["enterprise"] :
          /\ pe[1].description # pf[1].description
          /\ pe[2].successCriteria # pf[2].successCriteria

\* C6: all runs on the same scenario queue the same sequence of task
\* definitions, whatever their mock mode, budget and verbosity and whatever
\* ran before.
C6_PlanningDeterministic ==
    \A s \in DOMAIN SCENARIOS :
        Cardinality({[i \in 1..Len(p) |-> Definition(p[i])] : p \in plans[s]}) <= 1

\* a later run has just queued the list of a scenario an earlier run queued
C6_Witness ==
    /\ prog = "demo"
    /\ pc = "execute"
    /\ scenario \in DOMAIN SCENARIOS
    /\ earlier[scenario] # {}
    /\ submitted \in plans[scenario]

\* C7: in scenario basic the tasks queued are comprehend, generate, test in
\* that order and nothing else, given to three distinct agents created from
\* the analyst, developer and tester templates.
C7_BasicPlan ==
    (prog = "demo" /\ scenario = "basic") =>
       /\ \A i \in 1..Len(submitted) :
             /\ i <= 3
             /\ submitted[i].id =
                   <<"comprehend-todo-api", "generate-todo-api", "test-todo-api">>[i]
       /\ QueueTasksDone =>
             /\ Len(submitted) = 3
             /\ submitted[1].agentId = agents["analyst"].id
             /\ submitted[2].agentId = agents["developer"].id
             /\ submitted[3].agentId = agents["tester"].id
             /\ agents["analyst"].role = "REQUIREMENTS_ANALYST"
             /\ agents["developer"].role = "SENIOR_DEVELOPER"
             /\ agents["tester"].role = "QA_ENGINEER"
             /\ Cardinality({submitted[i].agentId : i \in 1..3}) = 3

C7_Witness ==
    /\ prog = "demo"
    /\ scenario = "basic"
    /\ pc = "waitForCompletion"
    /\ Len(orchTasks) = 3

TaskById(p, id) == p[CHOOSE i \in 1..Len(p) : p[i].id = id]

Range(q) == {q[i] : i \in 1..Len(q)}

\* C8: in scenario enterprise five tasks are queued; validate depends on
\* exactly generate and test, generate-frontend on generate only.
C8_EnterprisePlan ==
    (prog = "demo" /\ scenario = "enterprise") =>
       /\ Len(submitted) <= 5
       /\ QueueTasksDone =>
             /\ Len(submitted) = 5
             /\ Range(TaskById(submitted, "validate-todo-api").dependencies)
                  = {"generate-todo-api", "test-todo-api"}
             /\ Range(TaskById(submitted, "generate-todo-frontend").dependencies)
                  = {"generate-todo-api"}

C8_Witness ==
    /\ prog = "demo"
    /\ scenario = "enterprise"
    /\ pc = "waitForCompletion"
    /\ Len(orchTasks) = 5

OrchestratorCalls ==
    {"initialize", "createAgent", "queueTask", "startExecution",
     "waitForCompletion", "shutdown"}

\* C9: the demo driver never has more than one orchestrator call outstanding.
C9_OneCallAtATime ==
    prog = "demo" =>
        Cardinality({c \in pending : c.kind \in OrchestratorCalls}) <= 1

\* a queueTask call is outstanding after earlier calls have resolved
C9_Witness ==
    /\ prog = "demo"
    /\ \E c \in pending : c.kind = "queueTask"
    /\ Len(orchTasks) >= 1

VerdictPrinted == console \cap {"E2E TEST PASSED", "E2E TEST FAILED"} # {}

\* C10: in the end-to-end check, if the 30 s timer fires the process has
\* ended with a non-zero status without printing E2E TEST PASSED; and once
\* waitForCompletion has resolved and the check went on to its verdict, the
\* timer is cleared, so that it is the verdict that decides the exit status.
C10_TimerRace ==
    prog = "e2e" =>
       /\ timer = "fired" =>
             /\ Exited
             /\ exitCode >= 1
             /\ "E2E TEST PASSED" \notin console
       /\ (pc \in {"e2e:verify", "e2e:verdict"} \/ VerdictPrinted) =>
             /\ timer = "cleared"
             /\ Exited => exitBy = "then"

C10_Witness ==
    /\ prog = "e2e"
    /\ timer = "fired"
    /\ Exited
    /\ \E c \in pending : c.kind = "waitForCompletion"

(***************************************************************************)
(* Task failures, quality gates and the reported status                    *)
(***************************************************************************)
\* the final report has been read and its status printed
ReportRead == ReportDisplayed \/ VerdictPrinted

\* C11: a step on which a task becomes failed (the taskFailed event) changes
\* the status of that task alone, issues and settles no call, leaves the
\* driver where it is and raises nothing; and a report read after a failure
\* has tasksCompleted < totalTasks (and the demo prints Status: FAILED).
C11_TaskFailedNotFatal ==
    [][/\ Count("failed")' > Count("failed") =>
            /\ pending' = pending
            /\ pc' = pc
            /\ thrown' = thrown
            /\ exitCode' = exitCode
            /\ submitted' = submitted
            /\ orchTasks' = orchTasks
            /\ Cardinality({i \in 1..Len(taskStatus) :
                               taskStatus'[i] # taskStatus[i]}) = 1
       /\ (ReportRead /\ Count("failed") > 0 =>
            /\ report.tasksCompleted < report.totalTasks
            /\ prog = "demo" => "Status: SUCCESS" \notin console)'
      ]_vars

\* a task failed, was reported, and the run went on to display its report
C11_Witness ==
    /\ "Failed" \in console
    /\ Count("failed") > 0
    /\ ReportDisplayed
    /\ pc = "cleanup"

\* C12: the end-to-end check prints E2E TEST PASSED only if none of the
\* quality gate results it received has the status fail or error.
C12_PassedOnlyWithoutFailedGates ==
    (prog = "e2e" /\ "E2E TEST PASSED" \in console) =>
        \A r \in qualityGateResults : r.status \notin {"fail", "error"}

AllCompleted == Count("completed") = Len(taskStatus)

\* C13: once the report has been read on a run whose queued tasks all
\* completed, its tasksCompleted and totalTasks both equal the number of
\* tasks the driver queued and the demo prints Status: SUCCESS; and SUCCESS
\* (or E2E TEST PASSED) is printed only when every task the driver queued is
\* completed and the report's tasksCompleted equals its totalTasks.
C13_SuccessIffAllCompleted ==
    /\ (ReportRead /\ AllCompleted) =>
          /\ report.tasksCompleted = report.totalTasks
          /\ report.totalTasks = Len(submitted)
          /\ prog = "demo" => "Status: SUCCESS" \in console
    /\ (console \cap {"Status: SUCCESS", "E2E TEST PASSED"} # {}) =>
          /\ report.tasksCompleted = report.totalTasks
          /\ Count("completed") = Len(submitted)

\* a mock run of five tasks, all completed, has printed its report
C13_Witness ==
    /\ prog = "demo"
    /\ mockMode
    /\ Len(submitted) = 5
    /\ AllCompleted
    /\ "Status: SUCCESS" \in console
    /\ report.tasksCompleted = 5

(***************************************************************************)
(* The scenario of a run                                                   *)
(***************************************************************************)
\* the configuration has been displayed
ConfigDisplayed == pc \notin {"load", "run", "displayConfig"}

\* what the run has produced so far is what the current scenario asks for
DerivedFromScenario ==
    /\ orchestrator # NoOrchestrator =>
          orchestrator.sessionName = <<"todo-demo-", scenario>>
    /\ \A i \in 1..Len(orchAgents) :
          /\ i <= Len(AgentPlan)
          /\ orchAgents[i].name = AgentPlan[i].name
          /\ orchAgents[i].role = AgentPlan[i].role
    /\ \A i \in 1..Len(submitted) :
          /\ i <= Len(TaskPlan)
          /\ submitted[i] = TaskPlan[i]
    /\ "Status: SUCCESS" \in console =>
          console \cap (BasicArtifacts \cup ExtraArtifacts) = ArtifactList

\* C14: from the display of the configuration to the exit of the process no
\* step changes the runner's scenario, and the session name, the agents
\* created, the tasks queued and the artifact list printed are at all times
\* those of that scenario.
C14_ScenarioImmutable ==
    [][prog = "demo" =>
         /\ (Alive /\ ConfigDisplayed) => scenario' = scenario
         /\ DerivedFromScenario'
      ]_vars

\* a scenario chosen at the prompt, other than the one of the environment,
\* has gone all the way to the printed artifact list
C14_Witness ==
    /\ prog = "demo"
    /\ Interactive
    /\ scenario = "enterprise"
    /\ envScenario = "basic"
    /\ "Status: SUCCESS" \in console
    /\ Len(orchAgents) = 5

(***************************************************************************)
(* The package entry point                                                 *)
(***************************************************************************)
\* C15: once a host has called runDemo(options), exactly one demo run has
\* been started in the process, the call threw nothing, and the run's
\* scenario, mockMode and budget are those of the options passed.
C15_RunDemoUsesOptions ==
    (pkg.host /\ pkg.called) =>
        /\ pkg.runs = 1
        /\ pkg.thrown = ""
        /\ scenario = Constructor(pkg.options).scenario
        /\ mockMode = Constructor(pkg.options).mockMode
        /\ budget = Constructor(pkg.options).budget

(***************************************************************************)
(* Agents, queueTask and the order of the phases                           *)
(***************************************************************************)
\* createAgents() has returned
AgentsDone == submitted # <<>> \/ (pc = "queueTasks" /\ pending = {})

AgentRoles == {orchAgents[i].role : i \in 1..Len(orchAgents)}

\* C16: the runner never creates more agents than SCENARIOS declares for the
\* scenario, and once createAgents() has returned it has created exactly
\* that many: the analyst, the developer and the tester (3) for basic, and
\* those plus the reviewer and the frontend developer (5) otherwise.
C16_AgentCount ==
    prog = "demo" =>
        IF scenario \in DOMAIN SCENARIOS
        THEN /\ Len(orchAgents) <= SCENARIOS[scenario].agents
             /\ AgentsDone =>
                  /\ Len(orchAgents) = SCENARIOS[scenario].agents
                  /\ Len(orchAgents) = IF scenario = "basic" THEN 3 ELSE 5
                  /\ Cardinality(AgentRoles) = Len(orchAgents)
                  /\ AgentRoles =
                        {"REQUIREMENTS_ANALYST", "SENIOR_DEVELOPER", "QA_ENGINEER"}
                        \cup (IF scenario = "basic" THEN {}
                              ELSE {"CODE_REVIEWER", "frontend_developer"})
        ELSE orchAgents = <<>>

\* createAgents() has just returned in a fullstack run
C16_Witness ==
    /\ prog = "demo"
    /\ scenario = "fullstack"
    /\ pc = "queueTasks"
    /\ pending = {}
    /\ submitted = <<>>
    /\ Len(orchAgents) = 5

\* the tasks the driver passed to queueTask before its latest one
QueuedEarlier == SubSeq(submitted, 1, Len(submitted) - 1)

\* C17: a queueTask call in flight carries the latest task the driver
\* submitted; each of its dependencies is the id of a task submitted earlier
\* in the run, which the orchestrator holds, and its agentId is the id of an
\* agent the orchestrator created in the run: the orchestrator accepts it.
C17_QueueTaskReferencesKnown ==
    \A c \in pending :
        c.kind = "queueTask" =>
            /\ submitted # <<>>
            /\ c.task = submitted[Len(submitted)]
            /\ \A k \in 1..Len(c.task.dependencies) :
                  /\ c.task.dependencies[k] \in IdSet(QueuedEarlier)
                  /\ c.task.dependencies[k] \in KnownTaskIds
            /\ c.task.agentId \in KnownAgentIds
            /\ Accepts(c.task)

\* every scenario has had its list queued, and the call in flight is for a
\* task with two dependencies
C17_Witness ==
    /\ prog = "demo"
    /\ \A s \in DOMAIN SCENARIOS : plans[s] # {}
    /\ \E c \in pending :
          /\ c.kind = "queueTask"
          /\ Len(c.task.dependencies) = 2

\* this step issues a call of the given kind
Issues(kind) ==
    /\ \E c \in pending' : c.kind = kind
    /\ \A c \in pending : c.kind # kind

\* what the running program creates, queues and registers before it starts
\* the execution
PlannedAgents == IF prog = "e2e" THEN E2EAgentPlan ELSE AgentPlan

PlannedTasks == IF prog = "e2e" THEN E2ETaskPlan ELSE TaskPlan

PlannedHandlers ==
    IF prog = "e2e" THEN {"taskCompleted", "taskFailed", "qualityGateResult"}
    ELSE EventHandlers

\* C18: startExecution is issued only when the orchestrator holds every
\* agent and every task of the plan and the handlers are registered; the
\* final report is read only when waitForCompletion has resolved (nothing in
\* flight, every task terminal); in the demo shutdown is issued only after
\* the report was displayed, and api.stop only after shutdown resolved.
C18_PhasesOrdered ==
    [][/\ Issues("startExecution") =>
            /\ Len(orchAgents) = Len(PlannedAgents)
            /\ Len(orchTasks) = Len(PlannedTasks)
            /\ submitted = PlannedTasks
            /\ orchTasks = submitted
            /\ pending = {}
            /\ handlers' = PlannedHandlers
       /\ (Alive /\ report' # report) =>
            /\ pending = {}
            /\ executing
            /\ Len(taskStatus) = Len(PlannedTasks)
            /\ \A i \in 1..Len(taskStatus) : Terminal(i)
            /\ prog = "demo" => "All tasks completed!" \in console
       /\ (prog = "demo" /\ Issues("shutdown")) =>
            /\ ReportDisplayed
            /\ report = getFinalReport
            /\ pending = {}
       /\ (prog = "demo" /\ Issues("apiStop")) =>
            /\ ReportDisplayed
            /\ ~executing
            /\ pending = {}
      ]_vars

\* a demo run has gone through every phase, down to the stopped API
C18_Witness ==
    /\ prog = "demo"
    /\ pc = "armExit"
    /\ pending = {}
    /\ api = "stopped"
    /\ ReportDisplayed

(***************************************************************************)
(* The exit status of the end-to-end check                                 *)
(***************************************************************************)
\* the exit status is 0 exactly when runE2ETest resolved to true, and it is
\* never the 1 s timer of the finally block that ends the process
ExitFollowsVerdict ==
    (prog = "e2e" /\ Exited) =>
        /\ exitCode = 0 <=> verdict = "true"
        /\ exitBy \in {"then", "uncaughtException"}
        /\ forceExit => exitBy = "then"

\* C19: the end-to-end check exits with status 0 if and only if runE2ETest
\* resolved to true, which it does only when all tasks completed, none
\* failed, a quality gate result was received, the artifacts are present
\* and no received gate result failed; the 1 s forced exit never decides.
C19_ExitStatusIsVerdict ==
    /\ ExitFollowsVerdict
    /\ (prog = "e2e" /\ verdict = "true") =>
          /\ AllCompleted
          /\ completedTasks = Len(submitted)
          /\ failedTasks = 0
          /\ qualityGateResults # {}
          /\ artifactsCreated
          /\ \A r \in qualityGateResults : r.status \notin {"fail", "error"}

(***************************************************************************)
(* The recorder                                                            *)
(***************************************************************************)
\* the options run-demo.js parses in the demo process the script launched
RecordedOptions ==
    Options([DEMO_SCENARIO |-> rec.child.DEMO_SCENARIO,
             MOCK_MODE |-> rec.child.MOCK_MODE, DEMO_BUDGET |-> ""],
            <<"--verbose">>)

DemoLaunched == rec.child # NoEnv

\* C20: the demo process launched inside the recording has DEMO_SCENARIO
\* equal to the scenario answered at the recorder's prompt and MOCK_MODE
\* equal to the mock mode answered, so it runs that scenario in that mode.
C20_RecordsSelection ==
    DemoLaunched =>
        /\ rec.child.DEMO_SCENARIO = rec.settings.scenario
        /\ rec.child.MOCK_MODE = BooleanToString(rec.settings.mockMode)
        /\ RecordedOptions.scenario = rec.settings.scenario
        /\ RecordedOptions.mockMode = rec.settings.mockMode

(***************************************************************************)
(* Stopping the Cloud API of the end-to-end check                          *)
(***************************************************************************)
\* the finally block of runE2ETest has called api.stop(): the call is in
\* flight, or it settled and the check went on to its exit
ApiStopInvoked ==
    \/ \E c \in pending : c.kind = "apiStopQuiet"
    \/ pc \in {"e2e:then"}
    \/ exitBy = "then"
    \/ api = "stopped"

\* C21: when the end-to-end check's process has exited after its Cloud API
\* was started, api.stop() has been invoked, whatever ended the run.
C21_ApiStoppedBeforeExit ==
    (prog = "e2e" /\ Exited /\ api \in {"started", "stopped"}) =>
        ApiStopInvoked

====
